---------------------------- MODULE Spec2Model ----------------------------
(***************************************************************************)
(* A model of the NewsSummary runner (src/main.py): the text cleaner, the  *)
(* chunker, the retrying generation client call_gemini, the summarization  *)
(* pipeline summarize_article and the batch driver main.                   *)
(*                                                                         *)
(* Texts are sequences of tokens.  The tokens " " and "\n" are whitespace; *)
(* every other token is a run of non-whitespace characters.  Python values *)
(* that may be None are tagged records (None, Str, Dict, ...).             *)
(***************************************************************************)
EXTENDS Integers, Sequences, FiniteSets, TLC

VARIABLES
    pc,               \* control point of the running operation
    text,             \* argument of clean_article_text / chunk_text
    max_words,        \* argument of chunk_text
    out,              \* value returned by the function under study
    out2,             \* value returned by its second application
    retries,          \* call_gemini: parameter retries
    attempt,          \* call_gemini: loop variable attempt
    log,              \* call_gemini: outcome of every remote request made so far
    delays,           \* call_gemini: arguments of time.sleep so far
    ret,              \* call_gemini: returned value
    urls,             \* main: number of URLs returned by get_top_story_urls
    url,              \* main: position of the for loop in urls
    article,          \* main: value of scrape_article_content(url)
    all_summaries,    \* main: all_summaries
    title,            \* summarize_article: parameter title
    cleaned,          \* summarize_article: cleaned
    chunks,           \* summarize_article: chunks
    chunk_summaries,  \* summarize_article: chunk_summaries
    chunk_i,          \* summarize_article: position of the for loop in chunks
    gen_calls,        \* summarize_article: the call_gemini calls made so far
    final_output,     \* summarize_article: final_output
    final_json,       \* summarize_article: final_json
    category,         \* summarize_article: category
    result            \* summarize_article: how the call ended

fnVars == <<text, max_words, out, out2>>
cgVars == <<retries, attempt, log, delays, ret>>
mainVars == <<urls, url, article, all_summaries>>
saVars == <<title, cleaned, chunks, chunk_summaries, chunk_i, gen_calls,
            final_output, final_json, category, result>>
vars == <<pc, fnVars, cgVars, mainVars, saVars>>

---------------------------------------------------------------------------
(* Bounds of the model. *)

\* longest text (in tokens) handed to chunk_text
MaxChunkTextLen == 5
\* largest max_words handed to chunk_text
MaxWordsArg == 3
\* most lines in a text handed to clean_article_text
MaxLines == 3
\* largest retries handed to call_gemini
MaxRetries == 4
\* most URLs get_top_story_urls returns in the model (at most Limit)
MaxUrls == 3

---------------------------------------------------------------------------
(* Python values. *)

None == [t |-> "None"]
Unset == [t |-> "unset"]
Str(s) == [t |-> "str", v |-> s]
Raised(e) == [t |-> "raise", exc |-> e]

---------------------------------------------------------------------------
(* Text primitives: str.strip, str.split, str.join.                        *)

NL == "\n"
SP == " "

\* the whitespace str.strip() and str.split() remove
IsSpace(c) == c \in {SP, NL}

\* the elements of a finite set of integers in increasing order
SortedSeq(S) ==
    [k \in 1..Cardinality(S) |->
        CHOOSE x \in S : Cardinality({y \in S : y < x}) = k - 1]

\* str.strip(): drop the leading and the trailing whitespace
Strip(s) ==
    LET solid == {i \in 1..Len(s) : ~IsSpace(s[i])}
    IN  IF solid = {} THEN <<>>
        ELSE SubSeq(s, CHOOSE i \in solid : \A j \in solid : i <= j,
                       CHOOSE i \in solid : \A j \in solid : j <= i)

\* str.split(sep): the pieces between the occurrences of sep, empty pieces kept
SplitOn(s, sep) ==
    LET at == SortedSeq({i \in 1..Len(s) : s[i] = sep})
        from(k) == IF k = 1 THEN 1 ELSE at[k - 1] + 1
        to(k) == IF k = Len(at) + 1 THEN Len(s) ELSE at[k] - 1
    IN  [k \in 1..(Len(at) + 1) |-> SubSeq(s, from(k), to(k))]

\* str.split(): the maximal runs of non-whitespace, in order
Words(s) ==
    LET starts == SortedSeq({i \in 1..Len(s) :
                        ~IsSpace(s[i]) /\ (i = 1 \/ IsSpace(s[i - 1]))})
        end(i) == CHOOSE j \in i..Len(s) :
                      /\ \A k \in i..j : ~IsSpace(s[k])
                      /\ (j = Len(s) \/ IsSpace(s[j + 1]))
    IN  [k \in 1..Len(starts) |-> SubSeq(s, starts[k], end(starts[k]))]

RECURSIVE Join(_, _)
\* sep.join(parts)
Join(parts, sep) ==
    IF parts = <<>> THEN <<>>
    ELSE IF Len(parts) = 1 THEN parts[1]
    ELSE LET h == Len(parts) \div 2
         IN  Join(SubSeq(parts, 1, h), sep) \o <<sep>>
                 \o Join(SubSeq(parts, h + 1, Len(parts)), sep)

RECURSIVE Flatten(_)
\* the concatenation of a sequence of sequences
Flatten(ss) ==
    IF ss = <<>> THEN <<>>
    ELSE IF Len(ss) = 1 THEN ss[1]
    ELSE LET h == Len(ss) \div 2
         IN  Flatten(SubSeq(ss, 1, h)) \o Flatten(SubSeq(ss, h + 1, Len(ss)))

---------------------------------------------------------------------------
(* clean_article_text (src/main.py 114-138).                               *)

Digits == {"1"}
Zones == {"GMT", "BST"}
\* a token that stands for an occurrence of a boilerplate marker in a line
Boilerplate == {"Follow BBC", "Related Topics"}

\* re.match(r"^\d{1,2}:\d{2}(\s*(GMT|BST))?$", ln)
IsTimestamp(ln) ==
    \E d \in {1, 2} :
        /\ Len(ln) >= d + 3
        /\ \A i \in 1..d : ln[i] \in Digits
        /\ ln[d + 1] = ":"
        /\ ln[d + 2] \in Digits
        /\ ln[d + 3] \in Digits
        /\ LET rest == SubSeq(ln, d + 4, Len(ln))
           IN  \/ rest = <<>>
               \/ /\ rest[Len(rest)] \in Zones
                  /\ \A i \in 1..(Len(rest) - 1) : rest[i] = SP

\* "Follow BBC" in ln or "Related Topics" in ln
IsBoilerplate(ln) == \E i \in 1..Len(ln) : ln[i] \in Boilerplate

\* the three tests of lines 123-132 on a line: TRUE when the line is kept
KeepLine(ln) == ~(ln = <<>> \/ IsTimestamp(ln) \/ IsBoilerplate(ln))

\* the for loop of lines 121-134: the stripped lines that pass the three tests
KeptLines(lines) ==
    SelectSeq([i \in 1..Len(lines) |-> Strip(lines[i])], KeepLine)

\* KeepLine with the timestamp and boilerplate tests made on the raw line
KeepRawLine(line) ==
    ~(Strip(line) = <<>> \/ IsTimestamp(line) \/ IsBoilerplate(line))

\* KeptLines with the tests made before the line is stripped
RawTestedLines(lines) ==
    LET kept == SelectSeq(lines, KeepRawLine)
    IN  [i \in 1..Len(kept) |-> Strip(kept[i])]

\* list(dict.fromkeys(cleaned)): first occurrences, in order
Dedupe(lines) ==
    LET firsts == SortedSeq({i \in 1..Len(lines) :
                        \A j \in 1..(i - 1) : lines[j] # lines[i]})
    IN  [k \in 1..Len(firsts) |-> lines[firsts[k]]]

clean_article_text_rawtests(t) ==
    Join(Dedupe(RawTestedLines(SplitOn(t, NL))), NL)

clean_article_text(t) ==
    Join(Dedupe(KeptLines(SplitOn(t, NL))), NL)

---------------------------------------------------------------------------
(* chunk_text (src/main.py 141-149).                                       *)

\* range(0, n, step) as the sequence of its values
RangeStep(n, step) ==
    [k \in 1..((n + step - 1) \div step) |-> (k - 1) * step]

\* words[i:j] for 0 <= i, a Python slice (0-based, j exclusive, clipped)
Slice(ws, i, j) == SubSeq(ws, i + 1, IF j < Len(ws) THEN j ELSE Len(ws))

chunk_text_short(t, n) ==
    LET words == Words(t)
        starts == RangeStep(Len(words), n)
    IN  [k \in 1..Len(starts) |->
            Join(Slice(words, starts[k], starts[k] + n - 1), SP)]

chunk_text(t, n) ==
    LET words == Words(t)
        starts == RangeStep(Len(words), n)
    IN  [k \in 1..Len(starts) |->
            Join(Slice(words, starts[k], starts[k] + n), SP)]

---------------------------------------------------------------------------
(* Values of the variables an operation does not use.                      *)

FnIdle == text = <<>> /\ max_words = 0 /\ out = <<>> /\ out2 = <<>>
CgIdle ==
    retries = 0 /\ attempt = 0 /\ log = <<>> /\ delays = <<>> /\ ret = Unset
MainIdle == urls = 0 /\ url = 0 /\ article = Unset /\ all_summaries = <<>>
SaIdle ==
    /\ title = <<>> /\ cleaned = <<>> /\ chunks = <<>>
    /\ chunk_summaries = <<>> /\ chunk_i = 0 /\ gen_calls = <<>>
    /\ final_output = Unset /\ final_json = Unset /\ category = Unset
    /\ result = Unset

\* all sequences over S of length at most n
SeqsUpTo(S, n) == UNION {[1..k -> S] : k \in 0..n}

---------------------------------------------------------------------------
(* chunk_text applied to every text over a small alphabet.                 *)

ChunkAlphabet == {SP, NL, "a", "b"}

InitChunk ==
    /\ pc = "chunk_call"
    /\ text \in SeqsUpTo(ChunkAlphabet, MaxChunkTextLen)
    /\ max_words \in 1..MaxWordsArg
    /\ out = <<>> /\ out2 = <<>>
    /\ CgIdle /\ MainIdle /\ SaIdle

\* chunks = chunk_text(text, max_words)
ChunkCall ==
    /\ pc = "chunk_call"
    /\ out' = chunk_text(text, max_words)
    /\ pc' = "chunk_done"
    /\ UNCHANGED <<text, max_words, out2, cgVars, mainVars, saVars>>

NextChunk == ChunkCall

SpecChunk == InitChunk /\ [][NextChunk]_vars

\* C7: for every text and every max_words N >= 1, the words of the chunks of
\* chunk_text(text, N), concatenated in order, are exactly the words of text;
\* every chunk has at most N words; a text with no word gives no chunk.
C7_ChunkRoundTrip ==
    pc = "chunk_done" =>
        /\ Flatten([k \in 1..Len(out) |-> Words(out[k])]) = Words(text)
        /\ \A k \in 1..Len(out) : Len(Words(out[k])) <= max_words
        /\ (Words(text) = <<>> => out = <<>>)

\* a text of three words, separated by more than single spaces or not, cut
\* into a full chunk and a shorter last chunk
C7_Witness ==
    /\ pc = "chunk_done"
    /\ max_words = 2
    /\ Len(Words(text)) = 3
    /\ Len(out) = 2
    /\ Len(Words(out[1])) = 2
    /\ Len(Words(out[2])) = 1

---------------------------------------------------------------------------
(* clean_article_text applied twice to texts made of sample lines.         *)

LineSamples ==
    { <<>>, <<SP>>, <<"a">>, <<SP, "a", SP>>, <<"a", SP, "b">>,
      <<"1", ":", "1", "1">>, <<SP, "1", ":", "1", "1">>,
      <<"1", "1", ":", "1", "1", SP, "GMT">>, <<"1", ":", "1">>,
      <<"Follow BBC", SP, "a">>, <<SP, "Related Topics">> }

CleanInputs == {Join(ls, NL) : ls \in SeqsUpTo(LineSamples, MaxLines)}

InitClean ==
    /\ pc = "clean_first"
    /\ text \in CleanInputs
    /\ max_words = 0 /\ out = <<>> /\ out2 = <<>>
    /\ CgIdle /\ MainIdle /\ SaIdle

\* out = clean_article_text(text)
CleanFirst ==
    /\ pc = "clean_first"
    /\ out' = clean_article_text(text)
    /\ pc' = "clean_again"
    /\ UNCHANGED <<text, max_words, out2, cgVars, mainVars, saVars>>

\* out2 = clean_article_text(out)
CleanAgain ==
    /\ pc = "clean_again"
    /\ out2' = clean_article_text(out)
    /\ pc' = "clean_done"
    /\ UNCHANGED <<text, max_words, out, cgVars, mainVars, saVars>>

NextClean == CleanFirst \/ CleanAgain

SpecClean == InitClean /\ [][NextClean]_vars

\* C8: clean_article_text is idempotent: cleaning a cleaned text returns it
\* unchanged.
C8_CleanIdempotent == pc = "clean_done" => out2 = out

\* a text the first cleaning changed (a duplicate line and a timestamp went)
\* and left non-empty
C8_Witness ==
    /\ pc = "clean_done"
    /\ out # text
    /\ out # <<>>
    /\ Len(SplitOn(out, NL)) + 2 <= Len(SplitOn(text, NL))

---------------------------------------------------------------------------
(* What the generation service can answer (response.text).                 *)

\* JSON documents, one token each
DocFull == "{title:t,summary:s,key_points:[k]}"
DocWithCategory == "{title:t,summary:s,key_points:[k],category:world}"
DocNullSummary == "{title:t,summary:null}"
DocNoTitle == "{summary:s}"
DocList == "[s]"
DocNull == "null"

ResponseTexts ==
    { <<>>, <<SP>>, <<"plain", SP, "text">>,
      <<DocFull>>, <<DocWithCategory>>, <<DocNullSummary>>, <<DocNoTitle>>,
      <<DocList>>, <<DocNull>>,
      <<"tech">>, <<SP, "Tech", NL>>, <<"sports">>, <<"tech", SP, "news">> }

\* what call_gemini can return: None (line 61) or response.text (line 57)
CallGeminiResults == {None} \cup {Str(t) : t \in ResponseTexts}

\* the truth value of a str or None
Truthy(v) == v.t = "str" /\ v.v # <<>>

Dict(f) == [t |-> "dict", f |-> f]
List == [t |-> "list"]

JsonDocs ==
    {DocFull, DocWithCategory, DocNullSummary, DocNoTitle, DocList, DocNull}

\* the value of a JSON document
JsonValue(d) ==
    CASE d = DocFull ->
           Dict([title |-> Str(<<"t">>), summary |-> Str(<<"s">>),
                 key_points |-> List])
      [] d = DocWithCategory ->
           Dict([title |-> Str(<<"t">>), summary |-> Str(<<"s">>),
                 key_points |-> List, category |-> Str(<<"world">>)])
      [] d = DocNullSummary -> Dict([title |-> Str(<<"t">>), summary |-> None])
      [] d = DocNoTitle -> Dict([summary |-> Str(<<"s">>)])
      [] d = DocList -> List
      [] d = DocNull -> None

\* json.loads(s): the value of the document s holds between optional
\* whitespace, JSONDecodeError for any other text
JsonLoads(s) ==
    LET body == Strip(s)
    IN  IF Len(body) = 1 /\ body[1] \in JsonDocs
        THEN JsonValue(body[1])
        ELSE Raised("JSONDecodeError")

\* v[key]: TypeError unless v is a dict, KeyError when it lacks the key
Subscript(v, key) ==
    IF v.t # "dict" THEN Raised("TypeError")
    ELSE IF key \notin DOMAIN v.f THEN Raised("KeyError")
    ELSE v.f[key]

\* v[key] = x on a dict
SetItem(v, key, x) ==
    Dict([k \in DOMAIN v.f \cup {key} |-> IF k = key THEN x ELSE v.f[k]])

\* str.lower(), token by token
Lower(s) == [i \in 1..Len(s) |-> IF s[i] = "Tech" THEN "tech" ELSE s[i]]

---------------------------------------------------------------------------
(* call_gemini (src/main.py 50-61).                                        *)

\* retries=4
DefaultRetries == 4

MoreAttemptsInclusive(a, r) == a <= r

\* for attempt in range(retries): the loop has another iteration
MoreAttempts(a, r) == a < r

\* time.sleep(2 * (attempt + 1))
Backoff(a) == 2 * (a + 1)

InitCall ==
    /\ pc = "cg_loop"
    /\ retries \in 0..MaxRetries
    /\ attempt = 0 /\ log = <<>> /\ delays = <<>> /\ ret = Unset
    /\ FnIdle /\ MainIdle /\ SaIdle

\* CG_RequestReturns with an empty response.text handled like an exception:
\* sleep and go on with the loop
CG_RequestReturnsNonEmpty ==
    /\ pc = "cg_loop"
    /\ MoreAttempts(attempt, retries)
    /\ \E t \in ResponseTexts :
          /\ log' = Append(log, Str(t))
          /\ IF t = <<>>
             THEN /\ delays' = Append(delays, Backoff(attempt))
                  /\ attempt' = attempt + 1
                  /\ UNCHANGED <<pc, ret>>
             ELSE /\ ret' = Str(t)
                  /\ pc' = "cg_done"
                  /\ UNCHANGED <<attempt, delays>>
    /\ UNCHANGED <<retries, fnVars, mainVars, saVars>>

\* lines 56-57: the request answers and call_gemini returns response.text
CG_RequestReturns ==
    /\ pc = "cg_loop"
    /\ MoreAttempts(attempt, retries)
    /\ \E t \in ResponseTexts :
          /\ log' = Append(log, Str(t))
          /\ ret' = Str(t)
    /\ pc' = "cg_done"
    /\ UNCHANGED <<retries, attempt, delays, fnVars, mainVars, saVars>>

\* lines 56-60: the request (or reading response.text) raises; the handler
\* sleeps and the loop goes on
CG_RequestRaises ==
    /\ pc = "cg_loop"
    /\ MoreAttempts(attempt, retries)
    /\ log' = Append(log, Raised("Exception"))
    /\ delays' = Append(delays, Backoff(attempt))
    /\ attempt' = attempt + 1
    /\ UNCHANGED <<pc, retries, ret, fnVars, mainVars, saVars>>

\* line 61: the loop is over, return None
CG_Exhausted ==
    /\ pc = "cg_loop"
    /\ ~MoreAttempts(attempt, retries)
    /\ ret' = None
    /\ pc' = "cg_done"
    /\ UNCHANGED <<retries, attempt, log, delays, fnVars, mainVars, saVars>>

NextCall == CG_RequestReturns \/ CG_RequestRaises \/ CG_Exhausted

SpecCall == InitCall /\ [][NextCall]_vars

AllRaised == \A i \in 1..Len(log) : log[i].t = "raise"

\* C4: call_gemini never makes more than retries requests, and when every
\* request fails it has made exactly retries requests when it ends, and it
\* ends by returning None.
C4_RetryBound ==
    /\ Len(log) <= retries
    /\ (pc = "cg_done" /\ AllRaised) => (Len(log) = retries /\ ret = None)

\* the default four requests all failed, with the sleeps 2, 4, 6, 8 between
C4_Witness ==
    /\ pc = "cg_done"
    /\ retries = DefaultRetries
    /\ Len(log) = DefaultRetries
    /\ AllRaised
    /\ delays = <<2, 4, 6, 8>>
    /\ ret = None

\* C12 as claimed: call_gemini never returns empty text, and a request that
\* answered empty text while attempts remained is followed by another request.
C12_EmptyRetried ==
    /\ (pc = "cg_done" /\ ret.t = "str") => ret.v # <<>>
    /\ \A i \in 1..Len(log) :
          (log[i] = Str(<<>>) /\ i < retries)
          => (Len(log) > i \/ pc = "cg_loop")

\* C12 as amended: only a request that raises is followed by another one; a
\* request that answers text, empty or not, is the last of the call, and that
\* text is what call_gemini returns.
C12_TextEndsCall ==
    \A i \in 1..Len(log) :
        log[i].t = "str" => (i = Len(log) /\ pc = "cg_done" /\ ret = log[i])

\* after one failed request the second answered empty text, which was
\* returned with two of the four attempts unused
C12_Witness ==
    /\ pc = "cg_done"
    /\ retries = DefaultRetries
    /\ Len(log) = 2
    /\ log[1].t = "raise"
    /\ log[2] = Str(<<>>)
    /\ ret = Str(<<>>)

\* call_gemini is sequential code: a step that can be taken is taken
SpecCallLive == SpecCall /\ WF_vars(NextCall)

\* Every call of call_gemini ends, whatever the requests do.
CallEnds == <>(pc = "cg_done")

---------------------------------------------------------------------------
(* The prompt templates (src/main.py 68-107) and str.format.               *)

Lit(name) == [part |-> "lit", name |-> name]
Field(name) == [part |-> "field", name |-> name]

\* SUMMARY_PROMPT: the braces of the JSON schema (lines 86-91) are not doubled,
\* so to str.format they open a replacement field, whose name is the text
\* between the "{" and the first ":", that is a newline, two spaces and "title"
\* in double quotes.  {article_text} (line 94) is the second field.
SUMMARY_PROMPT ==
    << Lit("summary-rules"), Field("\n  'title'"), Lit("article-text:"),
       Field("article_text"), Lit("end") >>

\* CATEGORY_PROMPT: the fields {title} and {summary} (lines 103-104)
CATEGORY_PROMPT ==
    << Lit("classify"), Field("title"), Lit("summary:"), Field("summary"),
       Lit("return-only-the-word") >>

\* str(v) as a text: a str is itself, any other value is its repr
ToText(v) == IF v.t = "str" THEN v.v ELSE <<v.t>>

\* template.format(**kwargs): KeyError at a field that is no keyword of the
\* call, else the template with every field replaced
Format(template, kwargs) ==
    IF \E i \in 1..Len(template) :
           template[i].part = "field" /\ template[i].name \notin DOMAIN kwargs
    THEN Raised("KeyError")
    ELSE Str(Flatten([i \in 1..Len(template) |->
                 IF template[i].part = "lit" THEN <<template[i].name>>
                 ELSE ToText(kwargs[template[i].name])]))

---------------------------------------------------------------------------
(* main (src/main.py 240-301) and summarize_article (156-217).             *)

\* get_top_story_urls(limit=5)
Limit == 5
\* len(cleaned.split()) < 80
MinWords == 80
\* chunk_text(text, max_words=600)
DefaultMaxWords == 600

\* "\n(Note: Article is short; summary may be limited.)" after the newline
ShortNote ==
    << "(Note:", SP, "Article", SP, "is", SP, "short;", SP, "summary", SP,
       "may", SP, "be", SP, "limited.)" >>

\* n words of prose on one line
Prose(n) == Join([k \in 1..n |-> <<"a">>], SP)

\* most lines of a scraped article body, long prose apart
MaxContentLines == 2

ContentLines ==
    { <<"a">>, <<"a", SP, "b">>, <<"1", ":", "1", "1">>,
      <<"Follow BBC", SP, "a">> }

\* article["content"]: extract_article_text returns the paragraphs joined by
\* newlines, or its not-found message; never the empty string
Contents ==
    ({Join(ls, NL) : ls \in SeqsUpTo(ContentLines, MaxContentLines)} \ {<<>>})
    \cup {Prose(MinWords)}

\* article["title"]: the text of the h1, which may be empty
Titles == {<<"T">>, <<>>}

Articles == [title : Titles, content : Contents]

InitMain ==
    /\ pc = "main_fetch"
    /\ FnIdle /\ CgIdle /\ MainIdle /\ SaIdle

\* lines 254-257: urls = get_top_story_urls(limit=5); return when none
FetchUrls ==
    /\ pc = "main_fetch"
    /\ \E k \in 0..(IF MaxUrls < Limit THEN MaxUrls ELSE Limit) :
          /\ urls' = k
          /\ url' = 1
          /\ pc' = IF k = 0 THEN "main_exit" ELSE "main_scrape"
    /\ UNCHANGED <<article, all_summaries, fnVars, cgVars, saVars>>

\* lines 259-265: scrape_article_content(url) returns None; continue
ScrapeFails ==
    /\ pc = "main_scrape"
    /\ url <= urls
    /\ article' = None
    /\ url' = url + 1
    /\ UNCHANGED <<pc, urls, all_summaries, fnVars, cgVars, saVars>>

\* lines 259-270: the article is scraped and summarize_article(content, title)
\* is entered
ScrapeArticle ==
    /\ pc = "main_scrape"
    /\ url <= urls
    /\ \E a \in Articles :
          /\ article' = a
          /\ title' = IF a.title = <<>> THEN <<"No", SP, "title">> ELSE a.title
          /\ text' = a.content
    /\ cleaned' = <<>> /\ chunks' = <<>> /\ chunk_summaries' = <<>>
    /\ chunk_i' = 0 /\ gen_calls' = <<>>
    /\ final_output' = Unset /\ final_json' = Unset /\ category' = Unset
    /\ result' = Unset
    /\ pc' = "sa_clean"
    /\ UNCHANGED <<urls, url, all_summaries, max_words, out, out2, cgVars>>

\* lines 282-301: the loop is over; with no summary main returns, else it
\* saves the summaries and sends the digest
LoopEnd ==
    /\ pc = "main_scrape"
    /\ url > urls
    /\ pc' = IF all_summaries = <<>> THEN "main_exit" ELSE "main_saved"
    /\ UNCHANGED <<mainVars, fnVars, cgVars, saVars>>

\* lines 167-170: cleaned = clean_article_text(article_text), with the note
\* appended when it has fewer than 80 words
SA_Clean ==
    /\ pc = "sa_clean"
    /\ LET c == clean_article_text(text)
       IN  cleaned' = IF Len(Words(c)) < MinWords
                      THEN c \o <<NL>> \o ShortNote
                      ELSE c
    /\ pc' = "sa_chunk"
    /\ UNCHANGED <<title, chunks, chunk_summaries, chunk_i, gen_calls,
                   final_output, final_json, category, result,
                   fnVars, cgVars, mainVars>>

\* lines 172-173: chunks = chunk_text(cleaned); chunk_summaries = []
SA_Chunk ==
    /\ pc = "sa_chunk"
    /\ chunks' = chunk_text(cleaned, DefaultMaxWords)
    /\ chunk_summaries' = <<>>
    /\ chunk_i' = 1
    /\ pc' = "sa_loop"
    /\ UNCHANGED <<title, cleaned, gen_calls, final_output, final_json,
                   category, result, fnVars, cgVars, mainVars>>

\* lines 176-177, then 190-192: the head of the for loop over chunks.  With a
\* chunk left, the prompt is built by SUMMARY_PROMPT.format(article_text=chunk);
\* an exception of format is caught neither by summarize_article nor by main
\* (lines 259-280 hold no try), so it ends the run.  With no chunk left and no
\* partial summary, summarize_article returns None.
\* Format(SUMMARY_PROMPT, ...) is a KeyError whatever the chunk (the schema
\* field), and chunks is never empty (SA_Clean leaves at least the words of
\* ShortNote), so every run of Spec that scrapes an article ends here, at
\* "main_crashed": lines 178-217 are not executed by any run.
SA_ChunkPrompt ==
    /\ pc = "sa_loop"
    /\ IF chunk_i <= Len(chunks)
       THEN LET prompt ==
                    Format(SUMMARY_PROMPT, [article_text |-> Str(chunks[chunk_i])])
            IN  IF prompt.t = "raise"
                THEN /\ result' = prompt
                     /\ pc' = "main_crashed"
                     /\ UNCHANGED gen_calls
                ELSE /\ gen_calls' = Append(gen_calls,
                                    [kind |-> "chunk", chunk |-> chunk_i,
                                     prompt |-> prompt, response |-> Unset])
                     /\ pc' = "sa_chunk_call"
                     /\ UNCHANGED result
       ELSE /\ pc' = IF chunk_summaries = <<>> THEN "sa_returned" ELSE "sa_merge"
            /\ result' = IF chunk_summaries = <<>> THEN None ELSE result
            /\ UNCHANGED gen_calls
    /\ UNCHANGED <<title, cleaned, chunks, chunk_summaries, chunk_i,
                   final_output, final_json, category,
                   fnVars, cgVars, mainVars>>

Next == FetchUrls \/ ScrapeFails \/ ScrapeArticle \/ LoopEnd
            \/ SA_Clean \/ SA_Chunk \/ SA_ChunkPrompt

Spec == InitMain /\ [][Next]_vars

\* the summarize_article call of the current article has ended
SA_Ended == result # Unset

\* C1: summarize_article ends by returning a record or None and never
\* raises, and the driver loop is never cut short by an article.
C1_NeverRaises ==
    /\ result.t \in {"unset", "None", "dict"}
    /\ pc # "main_crashed"

\* the call_gemini calls of the run that returned text
TextCalls == {i \in 1..Len(gen_calls) : gen_calls[i].response.t = "str"}

\* the call_gemini calls of the run that returned non-empty text
NonEmptyCalls == {i \in 1..Len(gen_calls) : Truthy(gen_calls[i].response)}

\* C5: for an article whose cleaned body has fewer words than the minimum
\* and for which every generation call fails, summarize_article returns None.
C5_ShortAllFail ==
    (/\ SA_Ended
     /\ Len(Words(clean_article_text(text))) < MinWords
     /\ TextCalls = {})
    => result = None

\* C6: a run that returns a record had a generation call that returned
\* non-empty text, and a run with no such call returns None.
C6_RecordNeedsText ==
    /\ result.t = "dict" => NonEmptyCalls # {}
    /\ (SA_Ended /\ NonEmptyCalls = {}) => result = None

\* C9: a run that ends with no partial summary has made, after the calls of
\* the chunks, one more call on the full cleaned text, and returns None only
\* if that call failed too.
C9_SingleShotFallback ==
    (SA_Ended /\ chunk_summaries = <<>>)
    => /\ Len(gen_calls) = Len(chunks) + 1
       /\ result = None => ~Truthy(gen_calls[Len(gen_calls)].response)

\* C10: when the run ends every chunk has had exactly one call_gemini call,
\* and the partial summaries are as many as the chunk calls that returned text.
C10_OneCallPerChunk ==
    SA_Ended =>
        /\ \A k \in 1..Len(chunks) :
              Cardinality({i \in 1..Len(gen_calls) :
                  gen_calls[i].kind = "chunk" /\ gen_calls[i].chunk = k}) = 1
        /\ Len(chunk_summaries) =
              Cardinality({i \in TextCalls : gen_calls[i].kind = "chunk"})

\* In every state of Spec no call_gemini call has been made and no partial
\* summary exists: the run of an article is over at the first prompt.
NoCallReached ==
    gen_calls = <<>> /\ chunk_summaries = <<>> /\ final_output = Unset

\* the control points at which a run of main is over
MainOver == pc \in {"main_exit", "main_saved", "main_crashed"}

\* main with a run that is over left to stutter: a state of SpecToEnd with no
\* successor is a run of main stuck before its end, and there is none
MainDone == MainOver /\ UNCHANGED vars

SpecToEnd == InitMain /\ [][Next \/ MainDone]_vars

\* steps left at most: five per URL still to visit, and the steps left in the
\* current article
StepsLeft ==
    IF pc = "main_fetch" THEN 5 * (Limit + 2)
    ELSE 5 * (urls + 1 - url)
         + (CASE pc = "main_scrape" -> 4
              [] pc = "sa_clean" -> 3
              [] pc = "sa_chunk" -> 2
              [] pc = "sa_loop" -> 1
              [] OTHER -> 0)

\* Every step of main lowers StepsLeft, which is never negative: with
\* no state of SpecToEnd stuck, every run of main ends.
MainProgress == [][StepsLeft' < StepsLeft /\ StepsLeft' >= 0]_vars

\* In every state of Spec the calls made are within one per chunk, one merge
\* and one classification (none is ever made: NoCallReached).
CallsWithinBound == Len(gen_calls) <= Len(chunks) + 2

---------------------------------------------------------------------------
(* Lines 198-217 of summarize_article: the merge call, the parse of its    *)
(* answer and the classification, applied to every value call_gemini can   *)
(* return, from the point where the merge prompt is built.  No run of Spec *)
(* gets to line 198 (see SA_ChunkPrompt); SpecMergeClassify studies these  *)
(* lines on their own, as the function of final_output, the title and the  *)
(* classification answer that they are.                                    *)

\* the fixed category set of CATEGORY_PROMPT (line 101)
Categories ==
    { <<"politics">>, <<"world">>, <<"business">>, <<"tech">>, <<"science">>,
      <<"health">>, <<"uk">>, <<"europe">>, <<"other">> }

\* line 215: category.strip().lower() if category else "other"
CategoryOf(c) == IF Truthy(c) THEN Str(Lower(Strip(c.v))) ELSE Str(<<"other">>)

InitMergeClassify ==
    /\ pc = "sa_merge_call"
    /\ title \in {<<"T">>, <<"No", SP, "title">>}
    /\ chunk_summaries \in {<<Str(<<"s">>)>>, <<Str(<<"s">>), Str(<<"s2">>)>>}
    /\ cleaned = <<>> /\ chunks = <<>> /\ chunk_i = 0 /\ gen_calls = <<>>
    /\ final_output = Unset /\ final_json = Unset /\ category = Unset
    /\ result = Unset
    /\ FnIdle /\ CgIdle /\ MainIdle

\* lines 198-207: final_output = call_gemini(final_prompt); None is returned
\* for a falsy final_output and for one json.loads rejects, else final_json is
\* the parsed value
MC_Merge ==
    /\ pc = "sa_merge_call"
    /\ \E r \in CallGeminiResults :
          /\ final_output' = r
          /\ gen_calls' = Append(gen_calls,
                 [kind |-> "merge", prompt |-> Unset, response |-> r])
          /\ IF ~Truthy(r) \/ JsonLoads(r.v).t = "raise"
             THEN /\ result' = None
                  /\ pc' = "sa_returned"
                  /\ UNCHANGED final_json
             ELSE /\ final_json' = JsonLoads(r.v)
                  /\ pc' = "sa_classify"
                  /\ UNCHANGED result
    /\ UNCHANGED <<title, cleaned, chunks, chunk_summaries, chunk_i, category,
                   fnVars, cgVars, mainVars>>

\* lines 210-217: the category prompt is built from final_json["title"] and
\* final_json["summary"] (an exception of either subscript leaves the
\* function), the classification call is made and the category is attached
MC_Classify ==
    /\ pc = "sa_classify"
    /\ LET ti == Subscript(final_json, "title")
           su == Subscript(final_json, "summary")
       IN  IF ti.t = "raise" \/ su.t = "raise"
           THEN /\ result' = IF ti.t = "raise" THEN ti ELSE su
                /\ pc' = "sa_raised"
                /\ UNCHANGED <<gen_calls, category, final_json>>
           ELSE \E c \in CallGeminiResults :
                   /\ category' = c
                   /\ gen_calls' = Append(gen_calls,
                          [kind |-> "category",
                           prompt |-> Format(CATEGORY_PROMPT,
                                             [title |-> ti, summary |-> su]),
                           response |-> c])
                   /\ final_json' = SetItem(final_json, "category", CategoryOf(c))
                   /\ result' = final_json'
                   /\ pc' = "sa_returned"
    /\ UNCHANGED <<title, cleaned, chunks, chunk_summaries, chunk_i,
                   final_output, fnVars, cgVars, mainVars>>

NextMergeClassify == MC_Merge \/ MC_Classify

SpecMergeClassify == InitMergeClassify /\ [][NextMergeClassify]_vars

=============================================================================
